---- MODULE Spec2Model ----
(***************************************************************************)
(* The refresh/scrape engine of the GraphQL exporter: GraphqlCollector     *)
(* with its TTL cache (cachedAt), the single-flight updater flag           *)
(* (updaterIsRunning under updaterMu), the cache guard (accessMu), the     *)
(* refresh pass (updateMetrics / getMetrics and its callback) and the      *)
(* scrape (Collect).                                                       *)
(***************************************************************************)
EXTENDS Integers, Sequences, FiniteSets, TLC

(* ------------------------------ bounds --------------------------------- *)
\* number of scrape requests (Collect calls) that can be in flight at once
NScrapers == 2
\* goroutine slots available to `go func()` of atomicUpdate
MaxTasks == 2
\* seconds the clock may advance after construction
Horizon == 3
\* Observe calls on histogram collectors over one behaviour
MaxObs == 2
\* config.Config.CacheExpire (seconds), a configuration value
CacheExpire == 1

Scrapers == 1..NScrapers
Tasks == 1..MaxTasks

\* time.Now().Unix() at construction: any instant later than CacheExpire
\* seconds after the epoch (cachedAt starts at the zero value)
StartTime == CacheExpire + 1
MaxTime == StartTime + Horizon

(* --------------------------- configuration ----------------------------- *)
\* config.Config.Queries: two queries, the first with a metric of unset
\* type and a metric declared counter on the same value path, the second
\* with a histogram metric and a metric whose value path is malformed;
\* Value is the path read from the data
MetricCfg ==
  << [query |-> 1, MetricType |-> "",          Value |-> "a"],
     [query |-> 1, MetricType |-> "counter",   Value |-> "a"],
     [query |-> 2, MetricType |-> "histogram", Value |-> "b"],
     [query |-> 2, MetricType |-> "",          Value |-> "*"] >>

\* NewExtractor(separator, valuePath, labelPaths) returns an error for a
\* malformed path expression (a wildcard marker that is not matched)
NewExtractorErr(path) == path = "*"

\* newGraphqlCollector, lines 62-65 and 100-104: the error of NewExtractor
\* is logged and the metric is appended to its QuerySet all the same
Appended(extractorErr) == TRUE

\* the metrics of cachedQuerySet
Metrics ==
  { m \in 1..Len(MetricCfg) : Appended(NewExtractorErr(MetricCfg[m].Value)) }
NQueries == Cardinality({ MetricCfg[m].query : m \in Metrics })
MetricsOf(q) == { m \in Metrics : MetricCfg[m].query = q }

\* the collector type newGraphqlCollector instantiates for a declared type
CollectorType(metricType) ==
  IF metricType = "histogram" THEN "HistogramVec" ELSE "GaugeVec"

(* ------------------------ remote query responses ----------------------- *)
Keys == {"a", "b"}
Values == {"", "abc", "3"}
Labels == {"x"}
Sample == [value : Values, label : Labels]
\* a decoded JSON object: the top-level keys present, each with one sample
DataObjs == UNION { [K -> Sample] : K \in SUBSET Keys }
\* what graphql.GraphqlQuery returns: a transport error, or raw bytes that
\* are invalid JSON, or a JSON document whose "data" field is absent, null
\* or an object
Responses ==
  { [kind |-> "transportError"], [kind |-> "invalidJSON"],
    [kind |-> "noData"], [kind |-> "nullData"] }
  \cup { [kind |-> "data", data |-> d] : d \in DataObjs }

\* strconv.ParseFloat(value, 64): on a syntax error it returns 0 and an error
ParseFloat(value) ==
  IF value = "3" THEN [f |-> 3, err |-> FALSE] ELSE [f |-> 0, err |-> TRUE]


(* ----------------------- decoding and extraction ----------------------- *)
\* d1 with the entries of d2 added, d2 winning on a common key
Merge(d1, d2) ==
  [k \in (DOMAIN d1) \cup (DOMAIN d2) |->
     IF k \in DOMAIN d2 THEN d2[k] ELSE d1[k]]

\* json.Unmarshal(result, &gql), gql being the *Graphql declared once before
\* the loop over the queries: a nil pointer is allocated, a nil map is
\* allocated, a non-nil map is reused with its entries kept, a null "data"
\* sets the map to nil, and an absent "data" leaves the field as it is.
\* Invalid JSON leaves gql untouched and returns an error.
Unmarshal(r, gql) ==
  CASE r.kind = "invalidJSON" -> [err |-> TRUE, gql |-> gql]
    [] r.kind = "noData" ->
         [err |-> FALSE, gql |-> [gql EXCEPT !.isNil = FALSE]]
    [] r.kind = "nullData" ->
         [err |-> FALSE,
          gql |-> [isNil |-> FALSE, dataNil |-> TRUE, Data |-> << >>]]
    [] r.kind = "data" ->
         [err |-> FALSE,
          gql |-> [isNil |-> FALSE, dataNil |-> FALSE,
                   Data |-> IF gql.dataNil THEN r.data
                            ELSE Merge(gql.Data, r.data)]]

\* Extractor.ExtractMetrics(data, callback) for a value path without
\* wildcard: the (value, labels) pairs the callback is invoked with
\* (at most one; none when the path is absent from the data)
ExtractMetrics(data, path) ==
  IF path \in DOMAIN data THEN << data[path] >> ELSE << >>

(* ------------------------------ collectors ----------------------------- *)
\* a series of a collector: its label tuple and value; for a histogram each
\* observation is kept with the identity obs of the Observe call (0 for a
\* gauge, which has one value per label tuple)
\* GaugeVec.WithLabelValues(labels...).Set(f)
GaugeSet(series, label, f) ==
  { x \in series : x.label # label }
    \cup { [obs |-> 0, label |-> label, val |-> f] }

\* the value of the series of label in series, 0 when there is none yet
ValueOf(series, label) ==
  IF \E x \in series : x.label = label
  THEN (CHOOSE x \in series : x.label = label).val ELSE 0

\* the increment of the CounterVec case: f, or 1 when the value does not
\* parse or is negative
CounterIncrement(value) ==
  IF ParseFloat(value).err \/ ParseFloat(value).f < 0 THEN 1
  ELSE ParseFloat(value).f

\* CounterVec.WithLabelValues(labels...).Add(f)
CounterAdd(series, label, f) ==
  { x \in series : x.label # label }
    \cup { [obs |-> 0, label |-> label, val |-> ValueOf(series, label) + f] }

\* HistogramVec.WithLabelValues(labels...).Observe(f)
HistObserve(series, label, f, id) ==
  series \cup { [obs |-> id, label |-> label, val |-> f] }

\* a reset that leaves the observations in place
Reset_keeps(series) == series

\* HistogramVec.Reset()
Reset(series) == {}

\* callbackFunc of getMetrics on a collector of type ctype holding series:
\* the series after the call. A parse error is logged and the call goes on
\* with the f that ParseFloat returned.
callbackFunc(series, ctype, value, label, id) ==
  IF value = "" THEN series
  ELSE CASE ctype = "HistogramVec" ->
              HistObserve(series, label, ParseFloat(value).f, id)
         [] ctype = "GaugeVec" ->
              GaugeSet(series, label, ParseFloat(value).f)
         [] ctype = "CounterVec" ->
              CounterAdd(series, label, CounterIncrement(value))
         [] OTHER -> series

\* does the callback call Observe ?
Observes(ctype, value) == value # "" /\ ctype = "HistogramVec"

\* the metrics of query q, in configuration order
MetricSeq(q) ==
  LET RECURSIVE from(_)
      from(m) == IF m > Len(MetricCfg) THEN << >>
                 ELSE IF MetricCfg[m].query = q /\ m \in Metrics
                      THEN << m >> \o from(m + 1)
                 ELSE from(m + 1)
  IN from(1)

\* the metrics among ms that the callback is invoked for with a non-empty
\* value when getMetrics extracts from data
Applied(ms, data) ==
  { m \in ms : /\ ExtractMetrics(data, MetricCfg[m].Value) # << >>
               /\ ExtractMetrics(data, MetricCfg[m].Value)[1].value # "" }

\* the loop `for _, m := range q.Metrics` of getMetrics over data: the
\* collectors and the observation identity after it
RECURSIVE ApplyMetrics(_, _, _, _)
ApplyMetrics(ms, data, c, id) ==
  IF ms = << >> THEN [coll |-> c, nextObs |-> id]
  ELSE LET m == Head(ms)
           ctype == CollectorType(MetricCfg[m].MetricType)
           ex == ExtractMetrics(data, MetricCfg[m].Value)
       IN IF ex = << >> THEN ApplyMetrics(Tail(ms), data, c, id)
          ELSE LET v == ex[1].value
                   c2 == [c EXCEPT ![m] =
                            callbackFunc(c[m], ctype, v, ex[1].label, id)]
                   id2 == IF Observes(ctype, v) THEN id + 1 ELSE id
               IN ApplyMetrics(Tail(ms), data, c2, id2)

(* ------------------------------ the cache ------------------------------ *)
\* a failed query that never ends the pass
Abort_never(err, failFast) == FALSE
\* a failed query that always ends the pass
Abort_always(err, failFast) == err

\* getMetrics, lines 129-146: on a transport or decode error,
\* `return err` when FailFast, else log and `continue`
Abort(err, failFast) == err /\ failFast

\* every collector reset after it is streamed
ResetsAfterCollect_all(ctype) == TRUE

\* Collect, lines 227-232: only a HistogramVec is Reset after c.Collect(ch)
ResetsAfterCollect(ctype) == ctype = "HistogramVec"

\* the flag left set when the goroutine ends
updaterIsRunningAfter_set(running) == TRUE

\* atomicUpdate, line 215: collector.updaterIsRunning = false
updaterIsRunningAfter(running) == FALSE

\* the TTL test with the boundary second counted as expired
CacheExpired_inclusive(t, cached) == t - cached >= CacheExpire

\* line 189 of updateMetrics: is a refresh due ?
CacheExpired(t, cached) == t - cached > CacheExpire

\* the timestamp written on every return, error or not
cachedAtAfter_always(err, extend, cached, t) == t
\* the timestamp never extended on error
cachedAtAfter_noextend(err, extend, cached, t) == IF err THEN cached ELSE t
\* the timestamp cleared on an error that does not extend the cache
cachedAtAfter_cleared(err, extend, cached, t) ==
  IF err THEN (IF extend THEN t ELSE 0) ELSE t

\* cachedAt when updateMetrics returns: time.Now().Unix() after a pass
\* without error, and after a pass with error when ExtendCacheOnError
cachedAtAfter(err, extend, cached, t) ==
  IF err THEN (IF extend THEN t ELSE cached) ELSE t

\* a goroutine started by every scrape
start_always(running) == TRUE
\* the flag read without the negation
start_unnegated(running) == running

\* atomicUpdate: start := !collector.updaterIsRunning
start(running) == ~running

\* the refresh mutating the collectors without waiting for the guard
updateMetricsMayLock_unguarded(mu) == TRUE

\* sync.Mutex.Lock() returns once the mutex is unlocked
\* updateMetrics: collector.accessMu.Lock()
updateMetricsMayLock(mu) == mu = << "none", 0 >>
\* the scrape streaming without waiting for the guard
CollectMayLock_unguarded(mu) == TRUE

\* Collect: collector.accessMu.Lock()
CollectMayLock(mu) == mu = << "none", 0 >>

(* ------------------------------- state --------------------------------- *)
VARIABLES
  FailFast,          \* config.Config.FailFast
  ExtendCacheOnError, \* config.Config.ExtendCacheOnError
  now,               \* time.Now().Unix()
  cachedAt,          \* GraphqlCollector.cachedAt
  updaterIsRunning,  \* GraphqlCollector.updaterIsRunning
  accessMu,          \* GraphqlCollector.accessMu: its holder, or Unlocked
  coll,              \* the series of each metric's Collector
  nextObs,           \* identity given to the next histogram observation
  tpc, tqi, tgql,    \* refresh goroutines: position, query index, gql
  tlog,              \* refresh goroutines: record of the pass in progress
  spc, smi, out,     \* scrapes: position, metric index, what was streamed
  streamed,          \* how many scrapes streamed each histogram observation
  lastFail           \* when the last pass with a failed query returned, or -1

vars == << FailFast, ExtendCacheOnError, now, cachedAt, updaterIsRunning,
           accessMu, coll, nextObs,
           tpc, tqi, tgql, tlog, spc, smi, out, streamed, lastFail >>

Unlocked == << "none", 0 >>
NilGql == [isNil |-> TRUE, dataNil |-> TRUE, Data |-> << >>]
\* record of a pass: was a refresh due when the goroutine was spawned, the
\* clock and cachedAt at the TTL check, the clock when updateMetrics
\* returned, did a query fail, did getMetrics return an error, the number
\* of queries issued, the first query that failed (0: none), the metrics
\* the callback applied a value to
NoLog == [spawnDue |-> FALSE, start |-> 0, before |-> 0, end |-> 0,
          failed |-> FALSE, err |-> FALSE, queried |-> 0, firstFail |-> 0,
          set |-> {}]
NoOut == [m \in Metrics |-> [done |-> FALSE, series |-> {}]]

Init ==
  /\ FailFast \in BOOLEAN
  /\ ExtendCacheOnError \in BOOLEAN
  /\ now = StartTime
  /\ cachedAt = 0
  /\ updaterIsRunning = FALSE
  /\ accessMu = Unlocked
  /\ coll = [m \in Metrics |-> {}]
  /\ nextObs = 1
  /\ tpc = [t \in Tasks |-> "none"]
  /\ tqi = [t \in Tasks |-> 0]
  /\ tgql = [t \in Tasks |-> NilGql]
  /\ tlog = [t \in Tasks |-> NoLog]
  /\ spc = [s \in Scrapers |-> "idle"]
  /\ smi = [s \in Scrapers |-> 0]
  /\ out = [s \in Scrapers |-> NoOut]
  /\ streamed = [i \in 1..MaxObs |-> 0]
  /\ lastFail = -1

(* ------------------------------ the clock ------------------------------ *)
Tick ==
  /\ now < MaxTime
  /\ now' = now + 1
  /\ UNCHANGED << FailFast, ExtendCacheOnError, cachedAt, updaterIsRunning,
                  accessMu, coll, nextObs, tpc, tqi, tgql, tlog, spc, smi,
                  out, streamed, lastFail >>

(* -------------------------- the scrape: Collect ------------------------ *)
FreeTasks == { t \in Tasks : tpc[t] = "none" }
NextTask == CHOOSE t \in FreeTasks : \A u \in FreeTasks : t <= u

\* Collect calls atomicUpdate: under updaterMu, start := !updaterIsRunning
\* and updaterIsRunning = true; then, if start, `go func()`
atomicUpdate(s) ==
  /\ spc[s] = "idle"
  /\ start(updaterIsRunning) => FreeTasks # {}
  /\ updaterIsRunning' = TRUE
  /\ tpc' = IF start(updaterIsRunning)
            THEN [tpc EXCEPT ![NextTask] = "updateMetrics"] ELSE tpc
  /\ tlog' = IF start(updaterIsRunning)
             THEN [tlog EXCEPT ![NextTask] =
                     [NoLog EXCEPT !.spawnDue = now - cachedAt > CacheExpire]]
             ELSE tlog
  /\ spc' = [spc EXCEPT ![s] = "lock"]
  /\ UNCHANGED << FailFast, ExtendCacheOnError, now, cachedAt, accessMu,
                  coll, nextObs, tqi, tgql, smi, out, streamed, lastFail >>

\* Collect: collector.accessMu.Lock()
CollectLock(s) ==
  /\ spc[s] = "lock"
  /\ CollectMayLock(accessMu)
  /\ accessMu' = << "scrape", s >>
  /\ spc' = [spc EXCEPT ![s] = IF Len(MetricCfg) = 0 THEN "unlock"
                               ELSE "collect"]
  /\ smi' = [smi EXCEPT ![s] = 1]
  /\ UNCHANGED << FailFast, ExtendCacheOnError, now, cachedAt,
                  updaterIsRunning, coll, nextObs, tpc, tqi, tgql, tlog,
                  out, streamed, lastFail >>

\* position of a scrape after it is done with metric m
AfterMetric(m) == IF m = Len(MetricCfg) THEN "unlock" ELSE "collect"

\* Collect: c.Collect(ch) on the collector of the current metric
CollectStream(s) ==
  /\ spc[s] = "collect"
  /\ LET m == smi[s]
         hist == ResetsAfterCollect(CollectorType(MetricCfg[m].MetricType))
     IN /\ out' = [out EXCEPT ![s][m] = [done |-> TRUE, series |-> coll[m]]]
        /\ streamed' = IF CollectorType(MetricCfg[m].MetricType)
                            = "HistogramVec"
                       THEN [i \in 1..MaxObs |->
                               IF \E x \in coll[m] : x.obs = i
                               THEN streamed[i] + 1 ELSE streamed[i]]
                       ELSE streamed
        /\ spc' = [spc EXCEPT ![s] = IF hist THEN "reset" ELSE AfterMetric(m)]
        /\ smi' = [smi EXCEPT ![s] = IF hist \/ m = Len(MetricCfg)
                                     THEN m ELSE m + 1]
  /\ UNCHANGED << FailFast, ExtendCacheOnError, now, cachedAt,
                  updaterIsRunning, accessMu, coll, nextObs, tpc, tqi, tgql,
                  tlog, lastFail >>

\* Collect: c.Reset() on the histogram collector just streamed
CollectReset(s) ==
  /\ spc[s] = "reset"
  /\ LET m == smi[s]
     IN /\ coll' = [coll EXCEPT ![m] = Reset(coll[m])]
        /\ spc' = [spc EXCEPT ![s] = AfterMetric(m)]
        /\ smi' = [smi EXCEPT ![s] = IF m = Len(MetricCfg) THEN m ELSE m + 1]
  /\ UNCHANGED << FailFast, ExtendCacheOnError, now, cachedAt,
                  updaterIsRunning, accessMu, nextObs, tpc, tqi, tgql, tlog,
                  out, streamed, lastFail >>

\* Collect returns: the deferred collector.accessMu.Unlock()
CollectReturn(s) ==
  /\ spc[s] = "unlock"
  /\ accessMu' = Unlocked
  /\ spc' = [spc EXCEPT ![s] = "idle"]
  /\ smi' = [smi EXCEPT ![s] = 0]
  /\ out' = [out EXCEPT ![s] = NoOut]
  /\ UNCHANGED << FailFast, ExtendCacheOnError, now, cachedAt,
                  updaterIsRunning, coll, nextObs, tpc, tqi, tgql, tlog,
                  streamed, lastFail >>

(* ------------------- the refresh goroutine: updateMetrics -------------- *)
\* updateMetrics, line 189: the TTL check
updateMetricsCheck(t) ==
  /\ tpc[t] = "updateMetrics"
  /\ tpc' = [tpc EXCEPT ![t] = IF CacheExpired(now, cachedAt) THEN "lock"
                               ELSE "clear"]
  /\ tlog' = [tlog EXCEPT ![t].start = now, ![t].before = cachedAt]
  /\ UNCHANGED << FailFast, ExtendCacheOnError, now, cachedAt,
                  updaterIsRunning, accessMu, coll, nextObs, tqi, tgql, spc,
                  smi, out, streamed, lastFail >>

\* updateMetrics: collector.accessMu.Lock(), then getMetrics issues the
\* first query
updateMetricsLock(t) ==
  /\ tpc[t] = "lock"
  /\ updateMetricsMayLock(accessMu)
  /\ accessMu' = << "refresh", t >>
  /\ tpc' = [tpc EXCEPT ![t] = IF NQueries = 0 THEN "return" ELSE "query"]
  /\ tqi' = [tqi EXCEPT ![t] = 1]
  /\ tlog' = [tlog EXCEPT ![t].queried = IF NQueries = 0 THEN 0 ELSE 1]
  /\ UNCHANGED << FailFast, ExtendCacheOnError, now, cachedAt,
                  updaterIsRunning, coll, nextObs, tgql, spc, smi, out,
                  streamed, lastFail >>

\* getMetrics, one iteration of the loop over the queries: the outstanding
\* graphql.GraphqlQuery returns r; error handling, decoding, extraction
getMetrics(t, r) ==
  /\ tpc[t] = "query"
  /\ LET q == tqi[t]
         transport == r.kind = "transportError"
         dec == IF transport THEN [err |-> TRUE, gql |-> tgql[t]]
                ELSE Unmarshal(r, tgql[t])
         applied == IF dec.err \/ dec.gql.dataNil
                    THEN [coll |-> coll, nextObs |-> nextObs]
                    ELSE ApplyMetrics(MetricSeq(q), dec.gql.Data, coll,
                                      nextObs)
         abort == Abort(dec.err, FailFast)
         over == abort \/ q = NQueries
     IN /\ applied.nextObs <= MaxObs + 1
        /\ coll' = applied.coll
        /\ nextObs' = applied.nextObs
        /\ tgql' = [tgql EXCEPT ![t] = IF over THEN NilGql ELSE dec.gql]
        /\ tqi' = [tqi EXCEPT ![t] = IF over THEN q ELSE q + 1]
        /\ tpc' = [tpc EXCEPT ![t] = IF over THEN "return" ELSE "query"]
        /\ tlog' = [tlog EXCEPT ![t].failed = @ \/ dec.err,
                                ![t].err = abort,
                                ![t].firstFail =
                                   IF @ = 0 /\ dec.err THEN q ELSE @,
                                ![t].set =
                                   IF dec.err \/ dec.gql.dataNil THEN @
                                   ELSE @ \cup Applied(MetricsOf(q),
                                                       dec.gql.Data),
                                ![t].queried = IF over THEN @ ELSE @ + 1]
  /\ UNCHANGED << FailFast, ExtendCacheOnError, now, cachedAt,
                  updaterIsRunning, accessMu, spc, smi, out, streamed,
                  lastFail >>

\* updateMetrics after getMetrics: lines 193-201 and the deferred
\* collector.accessMu.Unlock()
updateMetricsReturn(t) ==
  /\ tpc[t] = "return"
  /\ cachedAt' = cachedAtAfter(tlog[t].err, ExtendCacheOnError, cachedAt, now)
  /\ accessMu' = Unlocked
  /\ tpc' = [tpc EXCEPT ![t] = "clear"]
  /\ tlog' = [tlog EXCEPT ![t].end = now]
  /\ lastFail' = IF tlog[t].failed THEN now ELSE lastFail
  /\ UNCHANGED << FailFast, ExtendCacheOnError, now, updaterIsRunning, coll,
                  nextObs, tqi, tgql, spc, smi, out, streamed >>

\* the goroutine of atomicUpdate after updateMetrics: under updaterMu,
\* updaterIsRunning = false; the goroutine ends
updaterDone(t) ==
  /\ tpc[t] = "clear"
  /\ updaterIsRunning' = updaterIsRunningAfter(updaterIsRunning)
  /\ tpc' = [tpc EXCEPT ![t] = "none"]
  /\ tqi' = [tqi EXCEPT ![t] = 0]
  /\ tlog' = [tlog EXCEPT ![t] = NoLog]
  /\ UNCHANGED << FailFast, ExtendCacheOnError, now, cachedAt, accessMu,
                  coll, nextObs, tgql, spc, smi, out, streamed, lastFail >>

Next ==
  \/ Tick
  \/ \E s \in Scrapers : atomicUpdate(s)
  \/ \E s \in Scrapers : CollectLock(s)
  \/ \E s \in Scrapers : CollectStream(s)
  \/ \E s \in Scrapers : CollectReset(s)
  \/ \E s \in Scrapers : CollectReturn(s)
  \/ \E t \in Tasks : updateMetricsCheck(t)
  \/ \E t \in Tasks : updateMetricsLock(t)
  \/ \E t \in Tasks, r \in Responses : getMetrics(t, r)
  \/ \E t \in Tasks : updateMetricsReturn(t)
  \/ \E t \in Tasks : updaterDone(t)

Spec == Init /\ [][Next]_vars

\* scheduling: a goroutine that can take a step eventually takes it; each
\* remote query returns (within its timeout); a scrape that holds accessMu
\* runs to its return; a goroutine waiting in accessMu.Lock() eventually
\* gets the mutex (sync.Mutex hands it to a starving waiter)
Fairness ==
  /\ \A t \in Tasks :
       /\ WF_vars(updateMetricsCheck(t))
       /\ SF_vars(updateMetricsLock(t))
       /\ WF_vars(\E r \in Responses : getMetrics(t, r))
       /\ WF_vars(updateMetricsReturn(t))
       /\ WF_vars(updaterDone(t))
  /\ \A s \in Scrapers :
       /\ WF_vars(CollectStream(s))
       /\ WF_vars(CollectReset(s))
       /\ WF_vars(CollectReturn(s))

FairSpec == Init /\ [][Next]_vars /\ Fairness


(* ============================== claims ================================= *)
\* the refresh goroutines that exist
Running == { t \in Tasks : tpc[t] # "none" }
\* a refresh pass is in progress in goroutine t: between the TTL check that
\* found the cache expired and the return of updateMetrics
InPass(t) == tpc[t] \in {"lock", "query", "return"}
\* scrape s arrives: the step of Collect that runs atomicUpdate
Arrives(s) == spc[s] = "idle" /\ spc'[s] = "lock"
Histograms ==
  { m \in Metrics : CollectorType(MetricCfg[m].MetricType) = "HistogramVec" }

\* C1: single-flight refresh. In every reachable state at most one refresh
\* goroutine exists, however many scrapes are in flight, and a scrape that
\* arrives while updaterIsRunning is true spawns no goroutine.
C1_SingleFlight ==
  /\ [](Cardinality(Running) <= 1)
  /\ [][\A s \in Scrapers : (Arrives(s) /\ updaterIsRunning) => tpc' = tpc]_vars

\* C1 witness: a refresh is outstanding on a remote query and every scrape
\* has arrived after it was spawned and waits
C1_Witness ==
  /\ \E t \in Tasks : tpc[t] = "query"
  /\ \A s \in Scrapers : spc[s] = "lock"
  /\ Cardinality(Running) = 1

\* C2 (as claimed): a scrape never blocks on refresh completion. While a
\* remote query of a refresh pass is outstanding the refresh does not hold
\* the cache guard, so a Collect call can acquire it.
C2_ScrapeNeverBlocks ==
  \A t \in Tasks : tpc[t] = "query" => CollectMayLock(accessMu)

\* C3: TTL not due. A refresh goroutine whose check finds
\* now - cachedAt <= CacheExpire executes no remote query, never takes the
\* cache guard and leaves cachedAt unchanged; the collectors change only in
\* a pass whose check found the cache expired (or by the reset of a scrape).
C3_NotDueNoQuery ==
  /\ [](\A t \in Tasks :
          (tpc[t] \notin {"none", "updateMetrics"}
             /\ tlog[t].start - tlog[t].before <= CacheExpire)
          => /\ tpc[t] = "clear"
             /\ tlog[t].queried = 0
             /\ cachedAt = tlog[t].before
             /\ accessMu # << "refresh", t >>)
  /\ [][\A t \in Tasks :
          (tpc[t] = "updateMetrics" /\ tpc'[t] # "updateMetrics"
             /\ now - cachedAt <= CacheExpire)
          => (tpc'[t] = "clear" /\ cachedAt' = cachedAt /\ coll' = coll)]_vars
  /\ [][coll' # coll =>
          \/ \E t \in Tasks : /\ tpc[t] = "query"
                              /\ tlog[t].start - tlog[t].before > CacheExpire
          \/ \E s \in Scrapers : spc[s] = "reset"]_vars

\* C3 witness: after a successful refresh at T, a goroutine checked at
\* exactly T + CacheExpire and issued no query
C3_Witness ==
  \E t \in Tasks :
    /\ tpc[t] = "clear"
    /\ tlog[t].before > 0
    /\ lastFail = -1
    /\ tlog[t].start - tlog[t].before = CacheExpire
    /\ tlog[t].queried = 0

\* C4 (as claimed): every scrape that arrives when
\* now - cachedAt > CacheExpire and no refresh pass is in progress triggers
\* a refresh pass: after its atomicUpdate a refresh goroutine is about to do
\* the TTL check.
C4_DueTriggersNoPass ==
  [][\A s \in Scrapers :
       (Arrives(s) /\ now - cachedAt > CacheExpire
          /\ ~(\E t \in Tasks : InPass(t)))
       => \E t \in Tasks : tpc'[t] = "updateMetrics"]_vars

\* C4 (amended): TTL due. Every scrape that arrives when now - cachedAt > CacheExpire
\* and updaterIsRunning is false (no refresh goroutine exists) spawns a
\* refresh goroutine, and the TTL check of a goroutine spawned by such a
\* scrape finds the cache expired, so that it goes on to the queries.
C4_DueTriggers ==
  /\ [][\A s \in Scrapers :
          (Arrives(s) /\ now - cachedAt > CacheExpire /\ ~updaterIsRunning)
          => \E t \in Tasks : /\ tpc[t] = "none"
                              /\ tpc'[t] = "updateMetrics"
                              /\ updaterIsRunning']_vars
  /\ [](\A t \in Tasks :
          (tpc[t] \notin {"none", "updateMetrics"} /\ tlog[t].spawnDue)
          => (InPass(t) \/ tlog[t].queried > 0))
  /\ [](\A t \in Tasks : InPass(t) /\ tpc[t] # "lock" => tlog[t].queried > 0)

\* C4 witness: a successful refresh at T, and a goroutine spawned by a
\* scrape at T + CacheExpire + 1 has a remote query outstanding
C4_Witness ==
  \E t \in Tasks :
    /\ tpc[t] = "query"
    /\ tlog[t].spawnDue
    /\ tlog[t].before > 0
    /\ lastFail = -1
    /\ tlog[t].start - tlog[t].before = CacheExpire + 1

\* C5 (as claimed): with ExtendCacheOnError = false, after a pass in which
\* a query failed, for either setting of FailFast, cachedAt is what it was
\* before the pass.
C5_FailedPassKeepsTimestamp ==
  \A t \in Tasks :
    (tpc[t] = "clear" /\ tlog[t].failed /\ ~ExtendCacheOnError)
    => cachedAt = tlog[t].before

\* C5 (amended): with ExtendCacheOnError = false and FailFast = true, after
\* a pass in which a query failed cachedAt is what it was before the pass,
\* and a refresh is still due.
C5_AbortedPassKeepsTimestamp ==
  \A t \in Tasks :
    (tpc[t] = "clear" /\ tlog[t].failed /\ ~ExtendCacheOnError /\ FailFast)
    => (cachedAt = tlog[t].before /\ now - cachedAt > CacheExpire)

\* C5 witness: such a pass returned, after an earlier pass had written
\* cachedAt
C5_Witness ==
  \E t \in Tasks :
    /\ tpc[t] = "clear" /\ tlog[t].failed
    /\ ~ExtendCacheOnError /\ FailFast
    /\ tlog[t].before > 0

\* C6 (as claimed): with ExtendCacheOnError = true, after a failed pass
\* cachedAt is the time at which the pass started.
C6_ExtendToStart ==
  \A t \in Tasks :
    (tpc[t] = "clear" /\ tlog[t].failed /\ ExtendCacheOnError)
    => cachedAt = tlog[t].start

\* C6 (amended): with ExtendCacheOnError = true, after a failed pass
\* cachedAt is the time at which updateMetrics returned from the pass, and
\* no later pass starts until more than CacheExpire seconds after it.
C6_ExtendToEnd ==
  /\ \A t \in Tasks :
       (tpc[t] = "clear" /\ tlog[t].failed /\ ExtendCacheOnError)
       => (cachedAt = tlog[t].end /\ lastFail = tlog[t].end)
  /\ \A t \in Tasks :
       (InPass(t) /\ ExtendCacheOnError /\ lastFail >= 0)
       => tlog[t].start - lastFail > CacheExpire

\* C6 witness: a failed pass that took time has returned, after an earlier
\* failed pass
C6_Witness ==
  \E t \in Tasks :
    /\ tpc[t] = "clear" /\ tlog[t].failed /\ tlog[t].err
    /\ ExtendCacheOnError
    /\ tlog[t].end > tlog[t].start
    /\ tlog[t].before > 0

\* C7: cachedAt never decreases.
C7_CachedAtMonotone == [][cachedAt' >= cachedAt]_vars

\* C7 witness: an aborted pass has returned after cachedAt had been written
\* by an earlier pass
C7_Witness ==
  \E t \in Tasks :
    tpc[t] = "clear" /\ tlog[t].err /\ tlog[t].before > 0 /\ lastFail = now

\* C8: histogram interval semantics. A histogram collector loses
\* observations only in the reset of the scrape that has just streamed it,
\* which empties it; a scrape that streams it resets it next; and a scrape
\* that streams it when no observation was applied since the last scrape
\* streamed it streams an empty histogram.
C8_HistogramInterval ==
  /\ [][\A m \in Histograms :
          ~(coll[m] \subseteq coll'[m])
          => \E s \in Scrapers :
               /\ spc[s] = "reset" /\ smi[s] = m /\ out[s][m].done
               /\ out[s][m].series = coll[m]
               /\ spc'[s] # "reset"
               /\ coll'[m] = {}]_vars
  /\ [][\A s \in Scrapers, m \in Histograms :
          (spc[s] = "collect" /\ smi[s] = m /\ out'[s] # out[s])
          => /\ spc'[s] = "reset" /\ smi'[s] = m
             /\ ((\A x \in coll[m] : streamed[x.obs] >= 1)
                   => out'[s][m].series = {})]_vars

\* C8 witness: an observation was streamed by an earlier scrape and a scrape
\* has now streamed the histogram empty
C8_Witness ==
  \E s \in Scrapers, m \in Histograms :
    /\ spc[s] = "reset" /\ out[s][m].done /\ out[s][m].series = {}
    /\ streamed[1] = 1

\* C9: no histogram observation is lost or reported twice. Each observation
\* a refresh has applied is streamed by at most one scrape, and one that is
\* no longer in its collector was streamed by exactly one.
C9_NoObservationLost ==
  \A i \in 1..MaxObs :
    /\ streamed[i] <= 1
    /\ (i < nextObs /\ ~(\E m \in Histograms : \E x \in coll[m] : x.obs = i))
       => streamed[i] = 1

\* C9 witness: an observation was streamed and reset while scrapes and a
\* refresh pass interleave
C9_Witness ==
  /\ \E t \in Tasks : tpc[t] = "query"
  /\ \E s \in Scrapers : spc[s] = "lock"
  /\ nextObs > 1 /\ streamed[1] = 1
  /\ \A m \in Histograms : \A x \in coll[m] : x.obs # 1

\* the (value, labels) pairs getMetrics hands to the callback of metric m
\* when the outstanding query of goroutine t returns r
Extracted(t, r, m) ==
  LET dec == IF r.kind = "transportError"
             THEN [err |-> TRUE, gql |-> tgql[t]]
             ELSE Unmarshal(r, tgql[t])
  IN IF dec.err \/ dec.gql.dataNil \/ MetricCfg[m].query # tqi[t]
     THEN << >>
     ELSE ExtractMetrics(dec.gql.Data, MetricCfg[m].Value)

\* C10 (as claimed): a gauge or histogram sample whose non-empty string
\* does not parse as a float is dropped: the collector's series are the
\* same before and after the callback.
C10_UnparsableDropped ==
  [][\A t \in Tasks, r \in Responses, m \in Metrics :
       (getMetrics(t, r) /\ Extracted(t, r, m) # << >>)
       => LET v == Extracted(t, r, m)[1].value
          IN (v # "" /\ ParseFloat(v).err) => coll'[m] = coll[m]]_vars

\* the metrics declared with type counter
DeclaredCounters ==
  { m \in Metrics : MetricCfg[m].MetricType = "counter" }

\* C11 (as claimed): counter semantics. For a metric declared counter each
\* extracted non-empty value adds its increment (the parsed value, or 1 when
\* it does not parse or is negative) to the previous value of the label
\* tuple; the value is never overwritten and never decreases.
C11_CounterAdds ==
  [][\A t \in Tasks, r \in Responses, m \in DeclaredCounters :
       (getMetrics(t, r) /\ Extracted(t, r, m) # << >>
          /\ Extracted(t, r, m)[1].value # "")
       => LET v == Extracted(t, r, m)[1].value
              l == Extracted(t, r, m)[1].label
          IN ValueOf(coll'[m], l) = ValueOf(coll[m], l) + CounterIncrement(v)]_vars

\* C12 (as claimed): when the decoded response of a query has a null or
\* absent data field, no extraction runs for that QuerySet: no collector
\* changes in that iteration of getMetrics, whatever earlier queries of the
\* pass returned.
C12_AbsentDataNoResult ==
  [][\A t \in Tasks, r \in Responses :
       (getMetrics(t, r) /\ r.kind \in {"noData", "nullData"})
       => (coll' = coll /\ nextObs' = nextObs)]_vars

\* C13: refresh always returns to Idle. Under fair scheduling, with every
\* remote query returning, every refresh goroutine that was started
\* eventually ends with updaterIsRunning cleared, whatever the outcome of
\* its pass.
C13_ReturnsToIdle ==
  (Running # {}) ~> (Running = {} /\ ~updaterIsRunning)

\* C13 witness: goroutines have ended after a pass with a failed query and
\* after a TTL check that found nothing due, and the flag is cleared
C13_Witness ==
  /\ ~updaterIsRunning
  /\ \A t \in Tasks : tpc[t] = "none"
  /\ lastFail >= 0
  /\ now - cachedAt <= CacheExpire

\* the metrics whose extractor failed to compile
CompileErrors ==
  { m \in 1..Len(MetricCfg) : NewExtractorErr(MetricCfg[m].Value) }

\* C14 (as claimed): a metric whose path expression fails to compile is
\* absent from the compiled QuerySet: no scrape ever streams its collector.
C14_CompileErrorDropsMetric ==
  \A m \in CompileErrors : \A s \in Scrapers : ~out[s][m].done

\* the query failed: a transport error or a decode error
Failing(r) == r.kind \in {"transportError", "invalidJSON"}
\* goroutine t ends an iteration of the loop of getMetrics in this step
Iterates(t) ==
  tpc[t] = "query" /\ (tpc'[t] = "return" \/ tqi'[t] # tqi[t])

\* C15: fail-fast abort. With FailFast, when query i of a pass fails,
\* getMetrics returns at once: no query after i is issued in that pass, and
\* the collectors keep what the queries before i applied (neither the
\* failing iteration nor the return changes them).
C15_FailFastAborts ==
  /\ [][\A t \in Tasks, r \in Responses :
          (FailFast /\ Failing(r) /\ Iterates(t) /\ getMetrics(t, r))
          => /\ tpc'[t] = "return"
             /\ tlog'[t].queried = tqi[t]
             /\ coll' = coll]_vars
  /\ [](\A t \in Tasks :
          (FailFast /\ tlog[t].firstFail > 0)
          => /\ tpc[t] \in {"return", "clear"}
             /\ tlog[t].err
             /\ tlog[t].queried = tlog[t].firstFail)
  /\ [][\A t \in Tasks : tpc[t] = "return" => coll' = coll]_vars

\* C15 witness: a pass was aborted at its first query, with a later query
\* configured
C15_Witness ==
  \E t \in Tasks :
    /\ FailFast /\ tpc[t] = "clear"
    /\ tlog[t].firstFail = 1 /\ tlog[t].queried = 1
    /\ NQueries > 1

\* C16: continue on error. Without FailFast, an iteration of getMetrics
\* whose query fails changes no collector and goes on to the next query;
\* during a pass the collectors of a QuerySet change only in the iteration
\* of their own query, so those of a failed query keep their values from
\* before the pass; and the pass issues every query.
C16_ContinueOnError ==
  /\ [][\A t \in Tasks, r \in Responses :
          (~FailFast /\ Failing(r) /\ Iterates(t) /\ getMetrics(t, r))
          => /\ coll' = coll
             /\ tqi[t] < NQueries
                  => (tpc'[t] = "query" /\ tqi'[t] = tqi[t] + 1)]_vars
  /\ [][\A t \in Tasks : \A m \in Metrics :
          (tpc[t] \in {"query", "return"} /\ coll'[m] # coll[m])
          => (tpc[t] = "query" /\ MetricCfg[m].query = tqi[t])]_vars
  /\ [](\A t \in Tasks :
          (~FailFast /\ tpc[t] = "return") => tlog[t].queried = NQueries)

\* C16 witness: the first query of a pass failed and the pass went on to
\* apply a value to a metric of a later query
C16_Witness ==
  \E t \in Tasks :
    /\ ~FailFast /\ tpc[t] = "return"
    /\ tlog[t].firstFail = 1
    /\ \E m \in tlog[t].set : MetricCfg[m].query > 1

\* the metrics whose collector is a GaugeVec
Gauges ==
  { m \in Metrics : CollectorType(MetricCfg[m].MetricType) = "GaugeVec" }

\* C17: a scrape leaves gauge and counter state and the timestamp
\* untouched. No step of Collect writes cachedAt or changes the collector
\* of a metric that is not a histogram; a histogram collector is either
\* left as it is or emptied.
C17_ScrapeFrame ==
  [][spc' # spc =>
       /\ cachedAt' = cachedAt
       /\ \A m \in Metrics \ Histograms : coll'[m] = coll[m]
       /\ \A m \in Histograms : coll'[m] = coll[m] \/ coll'[m] = {}]_vars

\* C17 witness: a scrape has streamed every collector, the gauge and the
\* declared counter hold a value, and they are as it streamed them
C17_Witness ==
  \E s \in Scrapers :
    /\ spc[s] = "unlock"
    /\ cachedAt > 0
    /\ \A m \in Gauges \ CompileErrors :
         out[s][m].series # {} /\ coll[m] = out[s][m].series
    /\ DeclaredCounters # {}
    /\ \E m \in Histograms : out[s][m].series # {} /\ coll[m] = {}

\* C18: pass atomicity. While a scrape streams (it holds accessMu) no
\* refresh pass is between taking the guard and returning, and what the
\* scrape has streamed of a gauge is what the collector holds until the
\* scrape returns: a scrape sees the collectors as they were before a pass
\* began or after it ended.
C18_PassAtomic ==
  /\ \A s \in Scrapers :
       spc[s] \in {"collect", "reset", "unlock"}
       => \A t \in Tasks : tpc[t] \notin {"query", "return"}
  /\ \A s \in Scrapers : \A m \in Gauges :
       out[s][m].done => out[s][m].series = coll[m]

\* C18 witness: a scrape is streaming collectors that a finished pass has
\* filled while the goroutine of the next pass waits for the guard
C18_Witness ==
  \E s \in Scrapers : \E t \in Tasks :
    /\ spc[s] = "collect" /\ smi[s] > 1
    /\ out[s][1].done /\ out[s][1].series # {}
    /\ tpc[t] = "lock"

\* C19 (as claimed): per-query data isolation. The data handed to the
\* extractors of a QuerySet holds only keys of that query's own response:
\* a value extracted for a metric comes from a key of the response.
C19_DataIsolation ==
  [][\A t \in Tasks, r \in Responses, m \in Metrics :
       (r.kind = "data" /\ Iterates(t) /\ getMetrics(t, r)
          /\ Extracted(t, r, m) # << >>)
       => MetricCfg[m].Value \in DOMAIN r.data]_vars

\* C20: gauge series persistence. No step removes the series of a label
\* tuple from a gauge collector; its value changes only when the callback
\* of a refresh sets it from an extracted value; and a scrape streams the
\* gauge collector as it is.
C20_GaugePersists ==
  /\ [][\A m \in Gauges : \A x \in coll[m] :
          /\ \E y \in coll'[m] : y.label = x.label
          /\ x \notin coll'[m]
               => \E t \in Tasks, r \in Responses :
                    /\ Iterates(t) /\ MetricCfg[m].query = tqi[t]
                    /\ getMetrics(t, r)
                    /\ Extracted(t, r, m) # << >>
                    /\ Extracted(t, r, m)[1].label = x.label
                    /\ Extracted(t, r, m)[1].value # ""
                    /\ ValueOf(coll'[m], x.label)
                         = ParseFloat(Extracted(t, r, m)[1].value).f]_vars
  /\ [][\A s \in Scrapers, m \in Gauges :
          (spc[s] = "collect" /\ smi[s] = m /\ out'[s] # out[s])
          => out'[s][m].series = coll[m]]_vars

\* C20 witness: a pass without error issued every query and set nothing
\* for the gauge, and a scrape after it has streamed the gauge's series
C20_Witness ==
  \E t \in Tasks : \E s \in Scrapers :
    /\ tpc[t] = "clear" /\ ~tlog[t].failed
    /\ tlog[t].queried = NQueries
    /\ 1 \in Gauges /\ 1 \notin tlog[t].set
    /\ out[s][1].done /\ out[s][1].series # {}

====
